---- MODULE Spec2Model ----
(***************************************************************************)
(* Model of generate_summary.py: the price-list catalogue generator.       *)
(*                                                                         *)
(* A Python str is a sequence of one-character strings, so that substring  *)
(* tests, regular-expression searches, case mapping, number formatting and *)
(* string comparison are computed character by character as the code does. *)
(* Three specifications share the module:                                  *)
(*   SpecParse   - parse_filename applied to one bounded filename          *)
(*   SpecContent - parse_pdf_content applied to one bounded document       *)
(*   Spec        - main(): scan, per-file parsing, grouping, rendering     *)
(***************************************************************************)
EXTENDS Integers, Sequences, FiniteSets, TLC

VARIABLES
    pc,                     \* position of the running function
    filename,               \* argument of parse_filename (SpecParse)
    metadata,               \* value returned by parse_filename (SpecParse)
    PDF_PARSING_AVAILABLE,  \* module flag: the import of pypdf succeeded
    pdf,                    \* the document behind pdf_path (SpecContent)
    content,                \* value returned by parse_pdf_content (SpecContent)
    cenniky,                \* the input folder: whether it exists, and name -> document
    pdf_files,              \* main: sorted(cenniky_path.glob('*.pdf'))
    all_metadata,           \* main: one dict per processed file
    grouped_data,           \* main: make -> model -> list of dicts
    docs,                   \* the output folder and the three files written into it
    console,                \* what has been printed, by kind of message
    document                \* index.html as the browser shows it

parseVars == <<filename, metadata>>

contentVars == <<pdf, content>>

mainVars == <<cenniky, pdf_files, all_metadata, grouped_data, docs, console, document>>

vars == <<pc, PDF_PARSING_AVAILABLE, parseVars, contentVars, mainVars>>

(***************************************************************************)
(* Bounds                                                                  *)
(***************************************************************************)
MaxFrags == 3      \* fragments concatenated into one file name

MaxTextFrags == 3  \* fragments concatenated into the text of one page

MaxFiles == 3      \* files in the input folder

(***************************************************************************)
(* Python values                                                           *)
(***************************************************************************)
\* Python None: a one-element tuple holding a multi-character string, hence
\* different from every str (whose elements are single characters).
None == <<"None">>

Digit == {"0", "1", "2", "3", "4", "5", "6", "7", "8", "9"}

\* the characters the pattern class \s accepts among the modelled characters
WhiteSpace == {" ", "\t", "\n"}

LowerCase == <<"a", "b", "c", "d", "e", "f", "g", "h", "i", "j", "k", "l", "m", "n", "o", "p", "q", "r", "s", "t", "u", "v", "w", "x", "y", "z">>

UpperCase == <<"A", "B", "C", "D", "E", "F", "G", "H", "I", "J", "K", "L", "M", "N", "O", "P", "Q", "R", "S", "T", "U", "V", "W", "X", "Y", "Z">>

Min(S) == CHOOSE m \in S : \A n \in S : m <= n

Max(S) == CHOOSE m \in S : \A n \in S : m >= n

CharAt(s, k) == IF k \in 1..Len(s) THEN s[k] ELSE ""

AllDigits(s, a, b) == \A k \in a..b : CharAt(s, k) \in Digit

upper_char(c) ==
    IF \E i \in 1..26 : LowerCase[i] = c
    THEN UpperCase[CHOOSE i \in 1..26 : LowerCase[i] = c]
    ELSE c

lower_char(c) ==
    IF \E i \in 1..26 : UpperCase[i] = c
    THEN LowerCase[CHOOSE i \in 1..26 : UpperCase[i] = c]
    ELSE c

\* str.upper()
upper(s) == [i \in 1..Len(s) |-> upper_char(s[i])]

\* str.lower()
lower(s) == [i \in 1..Len(s) |-> lower_char(s[i])]

\* the Python test  sub in s
Contains(sub, s) ==
    \E i \in 0..(Len(s) - Len(sub)) : SubSeq(s, i + 1, i + Len(sub)) = sub

\* str.startswith
startswith(s, prefix) ==
    Len(prefix) <= Len(s) /\ SubSeq(s, 1, Len(prefix)) = prefix

\* str.zfill for a string without sign
zfill(s, width) ==
    IF Len(s) >= width THEN s ELSE [i \in 1..(width - Len(s)) |-> "0"] \o s

RECURSIVE ToInt(_)
\* int(s) for a string of decimal digits
ToInt(s) ==
    IF s = <<>> THEN 0
    ELSE 10 * ToInt(SubSeq(s, 1, Len(s) - 1))
         + (CHOOSE n \in 0..9 : <<"0", "1", "2", "3", "4", "5", "6", "7", "8", "9">>[n + 1] = s[Len(s)])

RECURSIVE ToStr(_)
\* str(n) for n >= 0
ToStr(n) ==
    IF n < 10 THEN <<<<"0", "1", "2", "3", "4", "5", "6", "7", "8", "9">>[n + 1]>>
    ELSE ToStr(n \div 10) \o <<<<"0", "1", "2", "3", "4", "5", "6", "7", "8", "9">>[(n % 10) + 1]>>

RECURSIVE SortedSeq(_)
\* sorted(S) for a set of integers
SortedSeq(S) == IF S = {} THEN <<>> ELSE <<Min(S)>> \o SortedSeq(S \ {Min(S)})

Range(s) == {s[i] : i \in 1..Len(s)}

(***************************************************************************)
(* Content extraction                                                      *)
(***************************************************************************)
\* number of pages read by parse_pdf_content
max_pages == 5

RECURSIVE JoinPages(_, _)
\* text += reader.pages[i].extract_text() + "\n" for the first n pages
JoinPages(pages, n) ==
    IF n = 0 \/ pages = <<>> THEN <<>>
    ELSE Head(pages) \o <<"\n">> \o JoinPages(Tail(pages), n - 1)

\* extract_pdf_text: "" when pypdf is missing or the reader raises
extract_pdf_text(doc, available) ==
    IF ~available THEN <<>>
    ELSE IF ~doc.readable THEN <<>>
    ELSE JoinPages(doc.pages, max_pages)

\* the character class [\d\s.]
AmountChar(c) == c \in Digit \/ c \in WhiteSpace \/ c = "."

\* first position at or after p that does not hold white space
SkipSpace(text, p) ==
    Min({q \in p..(Len(text) + 1) : CharAt(text, q) \notin WhiteSpace})

\* the literal word w (upper case) at position p, ignoring case
WordAt(text, p, w) ==
    /\ p + Len(w) - 1 <= Len(text)
    /\ upper(SubSeq(text, p, p + Len(w) - 1)) = w

RECURSIVE WordsEnd(_, _, _)
\* the words matched from position p on, separated by \s*: position of the last
\* character, or 0
WordsEnd(text, p, words) ==
    IF ~WordAt(text, p, Head(words)) THEN 0
    ELSE IF Len(words) = 1 THEN p + Len(Head(words)) - 1
    ELSE WordsEnd(text, SkipSpace(text, p + Len(Head(words))), Tail(words))

\* [\d\s.]* taken greedily after the digit at position i: the last position taken
AmountEnd(text, i) ==
    Max({q \in i..Len(text) : \A k \in (i + 1)..q : AmountChar(text[k])})

\* the group (\d[\d\s.]*\d) from i when the greedy run ends at e and js holds the
\* positions the group can end at; \s*€ has to follow: <<group 1, position of €>>
AmountGroup(text, i, e, js) ==
    IF CharAt(text, e + 1) /= "€" \/ js = {} THEN None
    ELSE IF text[Max(js)] \notin Digit THEN None
    ELSE <<SubSeq(text, i, Max(js)), e + 1>>

\* the match of (\d[\d\s.]*\d)\s*€ from i when the greedy run ends at e
AmountUntil(text, i, e) ==
    AmountGroup(text, i, e, {j \in (i + 1)..e : text[j] \notin WhiteSpace})

\* match of (\d[\d\s.]*\d)\s*€ starting at position i: <<group 1, position of €>>
AmountAt(text, i) ==
    IF CharAt(text, i) \notin Digit THEN None ELSE AmountUntil(text, i, AmountEnd(text, i))

\* match of \s*bez\s*DPH at position p: the position of its last character, or 0
BezDphEnd(text, p) == WordsEnd(text, SkipSpace(text, p), <<<<"B", "E", "Z">>, <<"D", "P", "H">>>>)

\* does \s*s\s*DPH match at position p (the negative lookahead)
SDphAt(text, p) == WordsEnd(text, SkipSpace(text, p), <<<<"S">>, <<"D", "P", "H">>>>) /= 0

\* a match with group 1 that ends at position stop; stop = 0 is no match
MatchUntil(group, stop) == IF stop = 0 THEN None ELSE <<group, stop>>

\* price_patterns[pat] after its amount part matched as a: <<group 1, last position>>
PriceMatchAfter(text, a, pat) ==
    IF a = None THEN None
    ELSE IF pat = 1 THEN MatchUntil(a[1], BezDphEnd(text, a[2] + 1))
    ELSE IF SDphAt(text, a[2] + 1) THEN None
    ELSE a

\* match of price_patterns[pat] starting at position i: <<group 1, last position>>
PriceMatchAt(text, i, pat) == PriceMatchAfter(text, AmountAt(text, i), pat)

RECURSIVE FindPrices(_, _, _)
RECURSIVE PricesFrom(_, _, _, _)
\* re.finditer(price_patterns[pat], text, re.IGNORECASE) from pos on: the groups 1
FindPrices(text, pos, pat) ==
    IF pos > Len(text) THEN <<>>
    ELSE PricesFrom(text, pos, pat, PriceMatchAt(text, pos, pat))

\* the scan at pos, where the attempt to match gave m: go on behind the match, or
\* at the next position when there is none
PricesFrom(text, pos, pat, m) ==
    IF m = None THEN FindPrices(text, pos + 1, pat)
    ELSE <<m[1]>> \o FindPrices(text, m[2] + 1, pat)

\* price_str.replace(' ', '').replace('.', '')
StripSeparators(price_str) == SelectSeq(price_str, LAMBDA c : c /= " " /\ c /= ".")

\* int(price_str) succeeds: what is left holds decimal digits only
IsIntLiteral(price_str) == price_str /= <<>> /\ AllDigits(price_str, 1, Len(price_str))

\* mutation of PlausiblePrice: both bounds exclusive
PlausiblePriceExclusive(price) == 10000 < price /\ price < 150000

\* if 10000 <= price <= 150000
PlausiblePrice(price) == 10000 <= price /\ price <= 150000

\* price_str after both replace() calls, for every match
Stripped(groups) == [k \in 1..Len(groups) |-> StripSeparators(groups[k])]

\* int(price_str) for every match
ToInts(strs) == [k \in 1..Len(strs) |-> ToInt(strs[k])]

\* the integer values of the matches of both patterns, in the order matched
\* (matches whose int() raises ValueError are skipped)
MatchedAmounts(text) ==
    ToInts(SelectSeq(Stripped(FindPrices(text, 1, 1) \o FindPrices(text, 1, 2)), IsIntLiteral))

\* the list  prices  before deduplication
AppendedPrices(text) == SelectSeq(MatchedAmounts(text), PlausiblePrice)

\* sorted(set(prices))
extract_prices_from_text(text) == SortedSeq(Range(AppendedPrices(text)))

WordChar(c) ==
    c \in Digit \/ c = "_" \/ c \in Range(LowerCase) \/ c \in Range(UpperCase)

\* \b at the gap before position p
WordBoundary(text, p) == WordChar(CharAt(text, p - 1)) /= WordChar(CharAt(text, p))

\* variant_patterns: each alternative is a sequence of words separated by \s*
variant_patterns == <<
    << <<<<"A", "C", "T", "I", "V", "E">>>>, <<<<"C", "O", "M", "F", "O", "R", "T">>>>, <<<<"P", "R", "E", "M", "I", "U", "M">>>>, <<<<"L", "U", "X", "U", "R", "Y">>>>, <<<<"S", "P", "O", "R", "T">>>>, <<<<"B", "A", "S", "E">>>> >>,
    << <<<<"B", "E", "A", "C", "H">>>>, <<<<"C", "O", "A", "S", "T">>>>, <<<<"O", "C", "E", "A", "N">>>>, <<<<"E", "D", "I", "T", "I", "O", "N">>>> >>,
    << <<<<"V", "A", "N">>>>, <<<<"C", "O", "M", "B", "I">>>>, <<<<"K", "O", "M", "B", "I">>>>, <<<<"F", "U", "R", "G", "O", "N">>>>, <<<<"T", "R", "A", "V", "E", "L", "L", "E", "R">>>>,
       <<<<"C", "R", "E", "W">>, <<"V", "A", "N">>>>, <<<<"C", "R", "E", "W">>, <<"C", "A", "B">>>> >>,
    << <<<<"S", "H", "O", "R", "T">>>>, <<<<"L", "O", "N", "G">>>>, <<<<"E", "X", "T", "R", "A">>, <<"L", "O", "N", "G">>>>,
       <<<<"L", "1", "H", "1">>>>, <<<<"L", "1", "H", "2">>>>, <<<<"L", "1", "H", "3">>>>, <<<<"L", "2", "H", "1">>>>, <<<<"L", "2", "H", "2">>>>, <<<<"L", "2", "H", "3">>>>,
       <<<<"L", "3", "H", "1">>>>, <<<<"L", "3", "H", "2">>>>, <<<<"L", "3", "H", "3">>>> >> >>

\* the closing \b after a match that ends at position e; 0 is no match
BoundedEnd(text, e) == IF e /= 0 /\ WordBoundary(text, e + 1) THEN e ELSE 0

\* one alternative followed by \b, from position i: its last position, or 0
AltEnd(text, i, words) == BoundedEnd(text, WordsEnd(text, i, words))

\* the first alternative among hits, the ones that match
FirstAltEnd(text, i, alts, hits) ==
    IF hits = {} THEN 0 ELSE AltEnd(text, i, alts[Min(hits)])

\* match of \b(alternatives)\b starting at position i: its last position, or 0
VariantMatchEnd(text, i, alts) ==
    IF ~WordBoundary(text, i) THEN 0
    ELSE FirstAltEnd(text, i, alts, {k \in 1..Len(alts) : AltEnd(text, i, alts[k]) /= 0})

RECURSIVE FindVariants(_, _, _)
RECURSIVE VariantsFrom(_, _, _, _)
\* re.finditer(pattern, text, re.IGNORECASE) from pos on: the groups 1
FindVariants(text, pos, alts) ==
    IF pos > Len(text) THEN <<>>
    ELSE VariantsFrom(text, pos, alts, VariantMatchEnd(text, pos, alts))

\* the scan at pos, where the attempt to match ended at e: go on behind the match,
\* or at the next position when there is none
VariantsFrom(text, pos, alts, e) ==
    IF e = 0 THEN FindVariants(text, pos + 1, alts)
    ELSE <<SubSeq(text, pos, e)>> \o FindVariants(text, e + 1, alts)

RECURSIVE Unique(_, _)
\* append each element of s that is not yet in acc
Unique(acc, s) ==
    IF s = <<>> THEN acc
    ELSE Unique(IF Head(s) \in Range(acc) THEN acc ELSE Append(acc, Head(s)), Tail(s))

\* variants[:n]
Truncate(variants, n) == SubSeq(variants, 1, IF Len(variants) < n THEN Len(variants) ELSE n)

extract_variants_from_text(text) ==
    Truncate(Unique(<<>>, FindVariants(text, 1, variant_patterns[1])
                          \o FindVariants(text, 1, variant_patterns[2])
                          \o FindVariants(text, 1, variant_patterns[3])
                          \o FindVariants(text, 1, variant_patterns[4])), 5)

RECURSIVE FormatThousands(_)
\* f"{n:,}"
FormatThousands(n) ==
    IF n < 1000 THEN ToStr(n)
    ELSE FormatThousands(n \div 1000) \o <<",">> \o zfill(ToStr(n % 1000), 3)

\* None in the integer field base_price
NoPrice == -1

\* mutation of BasePrice: the last (highest) price
BasePriceLast(prices) == IF prices /= <<>> THEN prices[Len(prices)] ELSE NoPrice

\* mutation of BasePrice: set for a single price only
BasePriceOnlySingle(prices) == IF Len(prices) = 1 THEN prices[1] ELSE NoPrice

\* prices[0] if prices else None
BasePrice(prices) == IF prices /= <<>> THEN prices[1] ELSE NoPrice

\* the price_range expression of parse_pdf_content
PriceRange(prices) ==
    IF Len(prices) > 1
    THEN FormatThousands(prices[1]) \o <<" ", "-", " ">> \o FormatThousands(prices[Len(prices)]) \o <<" ", "€">>
    ELSE IF prices /= <<>> THEN FormatThousands(prices[1]) \o <<" ", "€">>
    ELSE None

\* the dict returned by parse_pdf_content
ContentDict(prices, variants) ==
    [prices |-> prices,
     variants |-> variants,
     base_price |-> BasePrice(prices),
     price_range |-> PriceRange(prices)]

\* parse_pdf_content once the text is extracted
ContentOfText(text) ==
    ContentDict(extract_prices_from_text(text), extract_variants_from_text(text))

parse_pdf_content(doc, available) == ContentOfText(extract_pdf_text(doc, available))

(***************************************************************************)
(* parse_filename                                                          *)
(***************************************************************************)
\* Path(filename).name: the final path component
PathName(fn) ==
    LET slashes == {i \in 1..Len(fn) : fn[i] = "/"}
    IN  IF slashes = {} THEN fn ELSE SubSeq(fn, Max(slashes) + 1, Len(fn))

\* Path(filename).stem: the final path component without its last suffix
PathStem(fn) ==
    LET name == PathName(fn)
        dots == {i \in 1..Len(name) : name[i] = "."}
        i == IF dots = {} THEN 0 ELSE Max(dots)
    IN  IF 1 < i /\ i < Len(name) THEN SubSeq(name, 1, i - 1) ELSE name

\* does s[i..] match  \s*\(\d+\)\s*$
DupMarkerAt(s, i) ==
    \E a \in i..Len(s) : \E b \in (a + 2)..Len(s) :
        /\ \A k \in i..(a - 1) : s[k] \in WhiteSpace
        /\ s[a] = "("
        /\ AllDigits(s, a + 1, b - 1)
        /\ s[b] = ")"
        /\ \A k \in (b + 1)..Len(s) : s[k] \in WhiteSpace

\* re.sub(r'\s*\(\d+\)\s*$', '', basename): the leftmost match is removed
StripDupMarker(s) ==
    LET hits == {i \in 1..Len(s) : DupMarkerAt(s, i)}
    IN  IF hits = {} THEN s ELSE SubSeq(s, 1, Min(hits) - 1)

\* re.search(r'MJ(\d{4})', basename, re.IGNORECASE): group 1 of the leftmost match
SearchModelYear(s) ==
    LET hits == {i \in 1..Len(s) :
                    /\ upper_char(CharAt(s, i)) = "M"
                    /\ upper_char(CharAt(s, i + 1)) = "J"
                    /\ AllDigits(s, i + 2, i + 5)}
    IN  IF hits = {} THEN None ELSE SubSeq(s, Min(hits) + 2, Min(hits) + 5)

\* lengths tried for (\d{1,2}) and (\d{1,2}), in the order of greedy backtracking
DottedLengths == << <<2, 2>>, <<2, 1>>, <<1, 2>>, <<1, 1>> >>

\* match of (\d{1,2})\.(\d{1,2})\.(\d{4}) starting at position i: <<day, month, year>>
DottedAt(s, i) ==
    LET ok(c) ==
            /\ AllDigits(s, i, i + c[1] - 1)
            /\ CharAt(s, i + c[1]) = "."
            /\ AllDigits(s, i + c[1] + 1, i + c[1] + c[2])
            /\ CharAt(s, i + c[1] + c[2] + 1) = "."
            /\ AllDigits(s, i + c[1] + c[2] + 2, i + c[1] + c[2] + 5)
        hits == {k \in 1..4 : ok(DottedLengths[k])}
    IN  IF hits = {} THEN None
        ELSE LET c == DottedLengths[Min(hits)]
             IN  << SubSeq(s, i, i + c[1] - 1),
                    SubSeq(s, i + c[1] + 1, i + c[1] + c[2]),
                    SubSeq(s, i + c[1] + c[2] + 2, i + c[1] + c[2] + 5) >>

\* re.search(r'(\d{1,2})\.(\d{1,2})\.(\d{4})', basename): groups of the leftmost match
SearchDottedDate(s) ==
    LET hits == {i \in 1..Len(s) : DottedAt(s, i) /= None}
    IN  IF hits = {} THEN None ELSE DottedAt(s, Min(hits))

\* re.search(r'(\d{2})(\d{2})(\d{4})', basename): groups of the leftmost match
SearchDigitDate(s) ==
    LET hits == {i \in 1..Len(s) : AllDigits(s, i, i + 7)}
    IN  IF hits = {} THEN None
        ELSE LET i == Min(hits)
             IN  <<SubSeq(s, i, i + 1), SubSeq(s, i + 2, i + 3), SubSeq(s, i + 4, i + 7)>>

\* mutation of FormatDotted: day and month are not zero-padded
FormatDottedNoPad(g) == g[3] \o <<"-">> \o g[2] \o <<"-">> \o g[1]

\* f"{year}-{month.zfill(2)}-{day.zfill(2)}"
FormatDotted(g) == g[3] \o <<"-">> \o zfill(g[2], 2) \o <<"-">> \o zfill(g[1], 2)

\* f"{year}-{month}-{day}"
FormatDigit(g) == g[3] \o <<"-">> \o g[2] \o <<"-">> \o g[1]

\* mutation of ValidityDate: the 8-digit run is tried before the dotted date
ValidityDateDigitFirst(basename) ==
    IF SearchDigitDate(basename) /= None
    THEN FormatDigit(SearchDigitDate(basename))
    ELSE IF SearchDottedDate(basename) /= None
         THEN FormatDotted(SearchDottedDate(basename))
         ELSE None

\* validity date of the Volkswagen branch: dotted date first, 8-digit run otherwise
ValidityDate(basename) ==
    IF SearchDottedDate(basename) /= None
    THEN FormatDotted(SearchDottedDate(basename))
    ELSE IF SearchDigitDate(basename) /= None
         THEN FormatDigit(SearchDigitDate(basename))
         ELSE None

\* mutation of VolkswagenModel: Caravelle and Multivan are tested before California
VolkswagenModelCaliforniaLast(U) ==
    IF Contains(<<"C", "A", "R", "A", "V", "E", "L", "L", "E">>, U) THEN <<"C", "a", "r", "a", "v", "e", "l", "l", "e">>
    ELSE IF Contains(<<"M", "U", "L", "T", "I", "V", "A", "N">>, U) \/ Contains(<<"M", "T", "7">>, U) THEN <<"M", "u", "l", "t", "i", "v", "a", "n">>
    ELSE IF Contains(<<"C", "A", "L", "I", "F", "O", "R", "N", "I", "A">>, U) \/ Contains(<<"C", "T", "7">>, U) THEN <<"C", "a", "l", "i", "f", "o", "r", "n", "i", "a">>
    ELSE IF Contains(<<"T", "R", "A", "N", "S", "P", "O", "R", "T", "E", "R">>, U) THEN <<"T", "r", "a", "n", "s", "p", "o", "r", "t", "e", "r">>
    ELSE None

\* the model chosen inside the Volkswagen branch; U is basename.upper().
\* None: no assignment, metadata['model'] keeps its default
VolkswagenModel(U) ==
    IF Contains(<<"C", "A", "L", "I", "F", "O", "R", "N", "I", "A">>, U) \/ Contains(<<"C", "T", "7">>, U) THEN <<"C", "a", "l", "i", "f", "o", "r", "n", "i", "a">>
    ELSE IF Contains(<<"C", "A", "R", "A", "V", "E", "L", "L", "E">>, U) THEN <<"C", "a", "r", "a", "v", "e", "l", "l", "e">>
    ELSE IF Contains(<<"M", "U", "L", "T", "I", "V", "A", "N">>, U) \/ Contains(<<"M", "T", "7">>, U) THEN <<"M", "u", "l", "t", "i", "v", "a", "n">>
    ELSE IF Contains(<<"T", "R", "A", "N", "S", "P", "O", "R", "T", "E", "R">>, U) THEN <<"T", "r", "a", "n", "s", "p", "o", "r", "t", "e", "r">>
    ELSE None

\* the Opel sub-classification
OpelModel(U) ==
    IF Contains(<<"V", "I", "V", "A", "R", "O">>, U)
    THEN IF Contains(<<"V", "A", "N">>, U) THEN <<"V", "i", "v", "a", "r", "o", " ", "V", "a", "n">>
         ELSE IF Contains(<<"C", "O", "M", "B", "I">>, U) THEN <<"V", "i", "v", "a", "r", "o", " ", "C", "o", "m", "b", "i">>
         ELSE <<"V", "i", "v", "a", "r", "o">>
    ELSE IF Contains(<<"Z", "A", "F", "I", "R", "A">>, U) THEN <<"Z", "a", "f", "i", "r", "a", " ", "L", "i", "f", "e">>
    ELSE None

\* the Peugeot sub-classification
PeugeotModel(U) ==
    IF Contains(<<"C", "O", "M", "B", "I">>, U) \/ Contains(<<"T", "R", "A", "V", "E", "L", "L", "E", "R">>, U) THEN <<"E", "x", "p", "e", "r", "t", " ", "C", "o", "m", "b", "i", "/", "T", "r", "a", "v", "e", "l", "l", "e", "r">>
    ELSE IF Contains(<<"F", "U", "R", "G", "O", "N">>, U) THEN <<"E", "x", "p", "e", "r", "t", " ", "F", "u", "r", "g", "o", "n">>
    ELSE <<"E", "x", "p", "e", "r", "t">>

\* the Toyota sub-classification
ToyotaModel(U) ==
    IF Contains(<<"V", "E", "R", "S", "O">>, U)
    THEN IF Contains(<<"E", "V">>, U) THEN <<"P", "r", "o", "A", "c", "e", " ", "V", "e", "r", "s", "o", " ", "E", "V">> ELSE <<"P", "r", "o", "A", "c", "e", " ", "V", "e", "r", "s", "o">>
    ELSE <<"P", "r", "o", "A", "c", "e">>

\* the conditions of the if/elif chain, in source order
IsVolkswagen(U) ==
    \E t \in {<<"C", "A", "L", "I", "F", "O", "R", "N", "I", "A">>, <<"C", "A", "R", "A", "V", "E", "L", "L", "E">>, <<"M", "U", "L", "T", "I", "V", "A", "N">>, <<"T", "R", "A", "N", "S", "P", "O", "R", "T", "E", "R">>, <<"M", "T", "7">>, <<"C", "T", "7">>} :
        Contains(t, U)

IsFord(U) == Contains(<<"F", "O", "R", "D">>, U) \/ Contains(<<"T", "R", "A", "N", "S", "I", "T">>, U)

IsOpel(U) == Contains(<<"V", "I", "V", "A", "R", "O">>, U) \/ Contains(<<"Z", "A", "F", "I", "R", "A">>, U)

IsPeugeot(U) == Contains(<<"E", "X", "P", "E", "R", "T">>, U)

IsToyota(U) == Contains(<<"P", "R", "O", "A", "C", "E">>, U)

IsSpaceTourer(U) == Contains(<<"S", "P", "A", "C", "E">>, U) /\ Contains(<<"T", "O", "U", "R", "E", "R">>, U)

IsCitroenPrefix(basename) == startswith(lower(basename), <<"c", "i", "t", "r", "o", "e", "n">>)

\* mutation of Branch: the Ford test is made before the Volkswagen test
BranchFordFirst(basename) ==
    LET U == upper(basename)
    IN  IF IsFord(U) THEN "Ford"
        ELSE IF IsVolkswagen(U) THEN "Volkswagen"
        ELSE IF IsOpel(U) THEN "Opel"
        ELSE IF IsPeugeot(U) THEN "Peugeot"
        ELSE IF IsToyota(U) THEN "Toyota"
        ELSE IF IsSpaceTourer(U) THEN "SpaceTourer"
        ELSE IF IsCitroenPrefix(basename) THEN "citroen"
        ELSE "none"

\* the branch of the if/elif chain that is entered
Branch(basename) ==
    LET U == upper(basename)
    IN  IF IsVolkswagen(U) THEN "Volkswagen"
        ELSE IF IsFord(U) THEN "Ford"
        ELSE IF IsOpel(U) THEN "Opel"
        ELSE IF IsPeugeot(U) THEN "Peugeot"
        ELSE IF IsToyota(U) THEN "Toyota"
        ELSE IF IsSpaceTourer(U) THEN "SpaceTourer"
        ELSE IF IsCitroenPrefix(basename) THEN "citroen"
        ELSE "none"

\* mutation of DefaultMetadata: the default model is the stem before marker removal
DefaultMetadataRawStem(fn) ==
    [filename |-> fn, basename |-> StripDupMarker(PathStem(fn)),
     make |-> <<"U", "n", "k", "n", "o", "w", "n">>, model |-> PathStem(fn),
     validity_date |-> None, model_year |-> None, variant |-> None]

\* mutation of DefaultMetadata: the validity date is extracted before the make
\* is decided
DefaultMetadataWithDate(fn) ==
    [filename |-> fn, basename |-> StripDupMarker(PathStem(fn)),
     make |-> <<"U", "n", "k", "n", "o", "w", "n">>, model |-> StripDupMarker(PathStem(fn)),
     validity_date |-> ValidityDate(StripDupMarker(PathStem(fn))),
     model_year |-> None, variant |-> None]

\* the metadata dict before classification
DefaultMetadata(fn) ==
    [filename |-> fn, basename |-> StripDupMarker(PathStem(fn)),
     make |-> <<"U", "n", "k", "n", "o", "w", "n">>, model |-> StripDupMarker(PathStem(fn)),
     validity_date |-> None, model_year |-> None, variant |-> None]

\* an assignment metadata['model'] = m that happens only when a sub-branch is taken
SetModel(md, m) == IF m = None THEN md ELSE [md EXCEPT !.model = m]

parse_filename(fn) ==
    LET md == DefaultMetadata(fn)
        basename == md.basename
        U == upper(basename)
        branch == Branch(basename)
    IN  CASE branch = "Volkswagen" ->
                [SetModel(md, VolkswagenModel(U)) EXCEPT
                    !.make = <<"V", "o", "l", "k", "s", "w", "a", "g", "e", "n">>,
                    !.variant = IF Contains(<<"T", "7">>, U) THEN <<"T", "7">> ELSE None,
                    !.model_year = SearchModelYear(basename),
                    !.validity_date = ValidityDate(basename)]
          [] branch = "Ford" ->
                [md EXCEPT !.make = <<"F", "o", "r", "d">>, !.model = <<"T", "r", "a", "n", "s", "i", "t", " ", "C", "u", "s", "t", "o", "m">>]
          [] branch = "Opel" ->
                [SetModel(md, OpelModel(U)) EXCEPT !.make = <<"O", "p", "e", "l">>]
          [] branch = "Peugeot" ->
                [md EXCEPT !.make = <<"P", "e", "u", "g", "e", "o", "t">>, !.model = PeugeotModel(U)]
          [] branch = "Toyota" ->
                [md EXCEPT !.make = <<"T", "o", "y", "o", "t", "a">>, !.model = ToyotaModel(U)]
          [] branch = "SpaceTourer" ->
                [md EXCEPT !.make = <<"C", "i", "t", "r", "o", "ë", "n">>, !.model = <<"S", "p", "a", "c", "e", "T", "o", "u", "r", "e", "r">>]
          [] branch = "citroen" ->
                [md EXCEPT !.make = <<"C", "i", "t", "r", "o", "ë", "n">>, !.model = <<"S", "p", "a", "c", "e", "T", "o", "u", "r", "e", "r">>]
          [] OTHER -> md

(***************************************************************************)
(* Inputs of parse_filename                                                *)
(***************************************************************************)
NameFrags == <<
    <<"C", "a", "l", "i", "f", "o", "r", "n", "i", "a">>, <<"c", "t", "7">>, <<"T", "r", "a", "n", "s", "p", "o", "r", "t", "e", "r">>, <<"M", "u", "l", "t", "i", "v", "a", "n">>,
    <<"T", "r", "a", "n", "s", "i", "t">>, <<"V", "i", "v", "a", "r", "o">>, <<"V", "a", "n">>, <<"E", "x", "p", "e", "r", "t">>, <<"P", "r", "o", "A", "c", "e">>,
    <<"S", "p", "a", "c", "e">>, <<"T", "o", "u", "r", "e", "r">>, <<"c", "i", "t", "r", "o", "e", "n">>,
    <<"M", "J", "2", "0", "2", "5">>, <<"1", "5", ".", "3", ".", "2", "0", "2", "5">>, <<"0", "1", "0", "3", "2", "0", "2", "5">>, <<"0", "0", ".", "0", "0", ".", "0", "0", "0", "0">>,
    <<" ", "(", "1", ")">>, <<"_">> >>

RECURSIVE Concat(_, _)
\* concatenation of the fragments named by the index sequence ix
Concat(frags, ix) ==
    IF ix = <<>> THEN <<>> ELSE frags[Head(ix)] \o Concat(frags, Tail(ix))

FragSeqs(frags, n) == UNION {[1..k -> 1..Len(frags)] : k \in 0..n}

\* the path main() passes: str(pdf_file.relative_to(repo_root)) for cenniky/*.pdf
RelativePath(name) == <<"c", "e", "n", "n", "i", "k", "y", "/">> \o name \o <<".", "p", "d", "f">>

Filenames == {RelativePath(Concat(NameFrags, ix)) : ix \in FragSeqs(NameFrags, MaxFrags)}

TextFrags == <<
    <<"2", "5", " ", "6", "0", "0", " ", "€">>, <<"2", "5", "6", "0", "0", " ", "€">>, <<"3", "1", ".", "9", "0", "0", " ", "€">>, <<" ", "b", "e", "z", " ", "D", "P", "H">>, <<" ", "s", " ", "D", "P", "H">>,
    <<"1", "0", "0", "0", "0", "€">>, <<"1", "5", "0", "0", "0", "0", " ", "€">>, <<"9", "9", "9", "9", " ", "€">>, <<"1", "5", "0", "0", "0", "1", "€">>,
    <<"5", " ">>, <<"2", "5", "\t", "6", "0", "0", " ", "€">>, <<" ", "B", "e", "a", "c", "h", ";", " ">> >>

\* page texts built from the fragments
PageTexts(n) == {Concat(TextFrags, ix) : ix \in FragSeqs(TextFrags, n)}

\* documents: one page of text; six pages, of which the sixth is never read;
\* a document pypdf cannot read
Documents ==
    {[readable |-> TRUE, pages |-> <<t>>] : t \in PageTexts(MaxTextFrags)}
    \cup {[readable |-> TRUE, pages |-> <<t, <<>>, <<>>, <<>>, u, <<"4", "7", " ", "9", "0", "0", " ", "€">>>>] :
            t \in PageTexts(1), u \in PageTexts(1)}
    \cup {[readable |-> FALSE, pages |-> <<>>]}

NoDocument == [readable |-> FALSE, pages |-> <<>>]

NoContent == [prices |-> <<>>, variants |-> <<>>, base_price |-> NoPrice, price_range |-> None]

NoMetadata ==
    [filename |-> None, basename |-> None, make |-> <<"U", "n", "k", "n", "o", "w", "n">>, model |-> None,
     validity_date |-> None, model_year |-> None, variant |-> None]

(***************************************************************************)
(* Ordering of strings, grouping and sorting                               *)
(***************************************************************************)
\* the modelled characters in ascending code point order
CodePoints ==
    <<"\t", "\n", " ", "(", ")", "+", ",", "-", ".", "/", "0", "1", "2", "3", "4", "5", "6", "7", "8", "9", ";", "A", "B", "C", "D", "E", "F", "G", "H", "I", "J", "K", "L", "M", "N", "O", "P", "Q", "R", "S", "T", "U", "V", "W", "X", "Y", "Z", "_", "a", "b", "c", "d", "e", "f", "g", "h", "i", "j", "k", "l", "m", "n", "o", "p", "q", "r", "s", "t", "u", "v", "w", "x", "y", "z", "ë", "€">>

ord(c) == CHOOSE i \in 1..Len(CodePoints) : CodePoints[i] = c

\* the Python comparison a < b of two str
StrLess(a, b) ==
    \E k \in 1..Len(b) :
        /\ k <= Len(a) + 1
        /\ SubSeq(a, 1, k - 1) = SubSeq(b, 1, k - 1)
        /\ IF k = Len(a) + 1 THEN TRUE ELSE ord(a[k]) < ord(b[k])

RECURSIVE SortedStrs(_)
\* sorted(S) for a set of str
SortedStrs(S) ==
    IF S = {} THEN <<>>
    ELSE LET m == CHOOSE m \in S : \A o \in S \ {m} : StrLess(m, o)
         IN  <<m>> \o SortedStrs(S \ {m})

RECURSIVE SumSeq(_)
SumSeq(s) == IF s = <<>> THEN 0 ELSE Head(s) + SumSeq(Tail(s))

\* x or default, for a str-or-None x
OrDefault(x, default) == IF x = None \/ x = <<>> THEN default ELSE x

\* key=lambda x: (x['validity_date'] or '0000-00-00', x['model_year'] or '0000')
sort_key(x) ==
    <<OrDefault(x.validity_date, <<"0", "0", "0", "0", "-", "0", "0", "-", "0", "0">>), OrDefault(x.model_year, <<"0", "0", "0", "0">>)>>

\* the Python comparison k1 < k2 of two key tuples
KeyLess(k1, k2) ==
    StrLess(k1[1], k2[1]) \/ (k1[1] = k2[1] /\ StrLess(k1[2], k2[2]))

\* mutation of SortInsert: x goes before the elements whose key equals its own
SortInsertBeforeEqual(sorted, x) ==
    LET later == {j \in 1..Len(sorted) : ~KeyLess(sort_key(x), sort_key(sorted[j]))}
        pos == IF later = {} THEN Len(sorted) + 1 ELSE Min(later)
    IN  SubSeq(sorted, 1, pos - 1) \o <<x>> \o SubSeq(sorted, pos, Len(sorted))

\* one step of the stable descending sort: x goes behind every element whose key
\* is greater than or equal to its own
SortInsert(sorted, x) ==
    LET later == {j \in 1..Len(sorted) : KeyLess(sort_key(sorted[j]), sort_key(x))}
        pos == IF later = {} THEN Len(sorted) + 1 ELSE Min(later)
    IN  SubSeq(sorted, 1, pos - 1) \o <<x>> \o SubSeq(sorted, pos, Len(sorted))

RECURSIVE SortFrom(_, _)
SortFrom(sorted, rest) ==
    IF rest = <<>> THEN sorted ELSE SortFrom(SortInsert(sorted, Head(rest)), Tail(rest))

\* price_lists.sort(key=..., reverse=True): list.sort is stable, also when reversed
SortPriceLists(price_lists) == SortFrom(<<>>, price_lists)

RECURSIVE Reverse(_)
Reverse(s) == IF s = <<>> THEN <<>> ELSE Reverse(Tail(s)) \o <<Head(s)>>

\* mutation of HtmlSort: reverse=True is missing
HtmlSortAscending(price_lists) == Reverse(SortPriceLists(Reverse(price_lists)))

\* the sort of generate_json_data
JsonSort(price_lists) == SortPriceLists(price_lists)

\* the sort of generate_html
HtmlSort(price_lists) == SortPriceLists(price_lists)

\* mutation of GroupByMakeModel: the list is assigned, not appended to, so that
\* a bucket keeps its last record only
GroupByMakeModelAssign(all) ==
    [mk \in {all[k].make : k \in 1..Len(all)} |->
        [md \in {all[k].model : k \in {j \in 1..Len(all) : all[j].make = mk}} |->
            <<all[Max({k \in 1..Len(all) : all[k].make = mk /\ all[k].model = md})]>>]]

\* grouped_data[make][model].append(metadata) for every metadata, in order
GroupByMakeModel(all) ==
    [mk \in {all[k].make : k \in 1..Len(all)} |->
        [md \in {all[k].model : k \in {j \in 1..Len(all) : all[j].make = mk}} |->
            SelectSeq(all, LAMBDA r : r.make = mk /\ r.model = md)]]

\* the three aggregate numbers, computed alike by both renderers
TotalMakes(g) == Cardinality(DOMAIN g)

TotalModels(g) ==
    LET mks == SortedStrs(DOMAIN g)
    IN  SumSeq([i \in 1..Len(mks) |-> Cardinality(DOMAIN g[mks[i]])])

TotalFiles(g) ==
    LET mks == SortedStrs(DOMAIN g)
    IN  SumSeq([i \in 1..Len(mks) |->
                    LET mds == SortedStrs(DOMAIN g[mks[i]])
                    IN  SumSeq([j \in 1..Len(mds) |-> Len(g[mks[i]][mds[j]])])])

(***************************************************************************)
(* generate_json_data                                                      *)
(***************************************************************************)
\* the in-place sorts of generate_json_data, as they leave grouped_data
JsonSorted(g) == [mk \in DOMAIN g |-> [md \in DOMAIN g[mk] |-> JsonSort(g[mk][md])]]

price_list_data(pl) ==
    [filename |-> PathName(pl.filename), basename |-> pl.basename,
     basePrice |-> pl.base_price, priceRange |-> pl.price_range,
     modelYear |-> pl.model_year, variant |-> pl.variant,
     validityDate |-> pl.validity_date,
     prices |-> pl.prices, variants |-> pl.variants]

\* json_data, built from the grouped data g after its lists have been sorted
json_data(g) ==
    LET mks == SortedStrs(DOMAIN g)
    IN  [manufacturers |->
            [i \in 1..Len(mks) |->
                LET mds == SortedStrs(DOMAIN g[mks[i]])
                IN  [name |-> mks[i],
                     models |->
                        [j \in 1..Len(mds) |->
                            [name |-> mds[j],
                             priceLists |->
                                [k \in 1..Len(g[mks[i]][mds[j]]) |->
                                    price_list_data(g[mks[i]][mds[j]][k])]]]]],
         stats |-> [totalManufacturers |-> TotalMakes(g),
                    totalModels |-> TotalModels(g),
                    totalPriceLists |-> TotalFiles(g)]]

(***************************************************************************)
(* generate_html                                                           *)
(***************************************************************************)
IsLeap(year) == (year % 4 = 0 /\ year % 100 /= 0) \/ year % 400 = 0

DaysInMonth(year, month) ==
    IF month = 2 THEN (IF IsLeap(year) THEN 29 ELSE 28)
    ELSE IF month \in {4, 6, 9, 11} THEN 30 ELSE 31

\* length matched by the %m pattern 1[0-2]|0[1-9]|[1-9] at position p when "-"
\* has to follow, or 0
MonthLen(s, p) ==
    LET c1 == CharAt(s, p)
        c2 == CharAt(s, p + 1)
    IN  IF /\ \/ c1 = "1" /\ c2 \in {"0", "1", "2"}
              \/ c1 = "0" /\ c2 \in Digit \ {"0"}
           /\ CharAt(s, p + 2) = "-"
        THEN 2
        ELSE IF c1 \in Digit \ {"0"} /\ c2 = "-" THEN 1 ELSE 0

\* length matched by the %d pattern 3[0-1]|[1-2]\d|0[1-9]|[1-9]| [1-9] at position p, or 0
DayLen(s, p) ==
    LET c1 == CharAt(s, p)
        c2 == CharAt(s, p + 1)
    IN  IF \/ c1 = "3" /\ c2 \in {"0", "1"}
           \/ c1 \in {"1", "2"} /\ c2 \in Digit
           \/ c1 = "0" /\ c2 \in Digit \ {"0"}
        THEN 2
        ELSE IF c1 \in Digit \ {"0"} THEN 1
        ELSE IF c1 = " " /\ c2 \in Digit \ {"0"} THEN 2 ELSE 0

\* datetime.strptime(s, '%Y-%m-%d'): <<year, month, day>>, or None for ValueError
strptime(s) ==
    IF ~(AllDigits(s, 1, 4) /\ CharAt(s, 5) = "-") \/ MonthLen(s, 6) = 0 THEN None
    ELSE LET ml == MonthLen(s, 6)
             dl == DayLen(s, 7 + ml)
         IN  IF dl = 0 \/ 6 + ml + dl /= Len(s) THEN None
             ELSE LET year == ToInt(SubSeq(s, 1, 4))
                      month == ToInt(SubSeq(s, 6, 5 + ml))
                      day == ToInt(SelectSeq(SubSeq(s, 7 + ml, 6 + ml + dl), LAMBDA c : c /= " "))
                  IN  IF year < 1 \/ day > DaysInMonth(year, month) THEN None
                      ELSE <<year, month, day>>

\* date_obj.strftime('%d.%m.%Y'); the C library writes %Y without padding
strftime(date) ==
    zfill(ToStr(date[3]), 2) \o <<".">> \o zfill(ToStr(date[2]), 2) \o <<".">> \o ToStr(date[1])

Badge(class, text) == [class |-> class, text |-> text]

\* the badges of one list item, in the order they are appended
html_badges(pl) ==
    (IF pl.base_price /= NoPrice /\ pl.base_price /= 0
     THEN <<Badge("price", <<"F", "r", "o", "m", " ">> \o FormatThousands(pl.base_price) \o <<" ", "€">>)>>
     ELSE IF pl.price_range /= None /\ pl.price_range /= <<>>
          THEN <<Badge("price", pl.price_range)>>
          ELSE <<>>)
    \o (IF pl.model_year /= None /\ pl.model_year /= <<>>
        THEN <<Badge("year", <<"M", "Y", " ">> \o pl.model_year)>> ELSE <<>>)
    \o (IF pl.variant /= None /\ pl.variant /= <<>>
        THEN <<Badge("variant", pl.variant)>> ELSE <<>>)
    \o (IF pl.validity_date /= None /\ pl.validity_date /= <<>>
        THEN IF strptime(pl.validity_date) /= None
             THEN <<Badge("date", <<"V", "a", "l", "i", "d", " ", "f", "r", "o", "m", " ">> \o strftime(strptime(pl.validity_date)))>>
             ELSE <<Badge("date", pl.validity_date)>>
        ELSE <<>>)

\* the in-place sorts of generate_html, as they leave grouped_data
HtmlSorted(g) == [mk \in DOMAIN g |-> [md \in DOMAIN g[mk] |-> HtmlSort(g[mk][md])]]

\* the page, built from the grouped data g0 as passed (statistics) and g after its
\* lists have been sorted (sections)
html_page(g0, g) ==
    LET mks == SortedStrs(DOMAIN g)
    IN  [stats |-> [total_makes |-> TotalMakes(g0),
                    total_models |-> TotalModels(g0),
                    total_files |-> TotalFiles(g0)],
         sections |->
            [i \in 1..Len(mks) |->
                LET mds == SortedStrs(DOMAIN g[mks[i]])
                IN  [make |-> mks[i],
                     groups |->
                        [j \in 1..Len(mds) |->
                            [model |-> mds[j],
                             items |->
                                [k \in 1..Len(g[mks[i]][mds[j]]) |->
                                    LET pl == g[mks[i]][mds[j]][k]
                                    IN  [href |-> <<".", ".", "/", "c", "e", "n", "n", "i", "k", "y", "/">> \o PathName(pl.filename),
                                         title |-> pl.basename,
                                         badges |-> html_badges(pl)]]]]]]]

(***************************************************************************)
(* generate_vue_html: the script of index.html                             *)
(***************************************************************************)
\* first position of the character c in s
IndexOf(s, c) == Min({i \in 1..Len(s) : s[i] = c})

RECURSIVE split(_, _)
\* dateStr.split(sep) for a separator of one character
split(s, sep) ==
    IF sep \notin Range(s) THEN <<s>>
    ELSE <<SubSeq(s, 1, IndexOf(s, sep) - 1)>>
         \o split(SubSeq(s, IndexOf(s, sep) + 1, Len(s)), sep)

\* ${x} for the k-th name of the destructuring  const [year, month, day] = parts
Interpolate(parts, k) == IF k <= Len(parts) THEN parts[k] ELSE <<"u", "n", "d", "e", "f", "i", "n", "e", "d">>

\* `${day}.${month}.${year}`
DayMonthYear(parts) ==
    Interpolate(parts, 3) \o <<".">> \o Interpolate(parts, 2) \o <<".">> \o Interpolate(parts, 1)

\* formatDate: split() of a string never throws, so the catch is never entered
formatDate(dateStr) ==
    IF dateStr = None \/ dateStr = <<>> THEN <<>> ELSE DayMonthYear(split(dateStr, "-"))

\* price.toLocaleString('en-US') for an integer
formatPrice(price) == FormatThousands(price)

createBadge(className, text) == [class |-> className, text |-> text]

\* the badges renderPriceLists appends for one entry of priceLists
js_badges(priceList) ==
    (IF priceList.basePrice /= NoPrice /\ priceList.basePrice /= 0
     THEN <<createBadge("price", <<"F", "r", "o", "m", " ">> \o formatPrice(priceList.basePrice) \o <<" ", "€">>)>>
     ELSE IF priceList.priceRange /= None /\ priceList.priceRange /= <<>>
          THEN <<createBadge("price", priceList.priceRange)>>
          ELSE <<>>)
    \o (IF priceList.modelYear /= None /\ priceList.modelYear /= <<>>
        THEN <<createBadge("year", <<"M", "Y", " ">> \o priceList.modelYear)>> ELSE <<>>)
    \o (IF priceList.variant /= None /\ priceList.variant /= <<>>
        THEN <<createBadge("variant", priceList.variant)>> ELSE <<>>)
    \o (IF priceList.validityDate /= None /\ priceList.validityDate /= <<>>
        THEN <<createBadge("date", <<"V", "a", "l", "i", "d", " ", "f", "r", "o", "m", " ">> \o formatDate(priceList.validityDate))>>
        ELSE <<>>)

\* one <li> of renderPriceLists
js_item(priceList) ==
    [href |-> <<".", ".", "/", "c", "e", "n", "n", "i", "k", "y", "/">> \o priceList.filename,
     title |-> priceList.basename,
     badges |-> js_badges(priceList)]

\* one model group of renderPriceLists
js_group(model) ==
    [model |-> model.name,
     items |-> [k \in 1..Len(model.priceLists) |-> js_item(model.priceLists[k])]]

\* one make section of renderPriceLists
js_section(manufacturer) ==
    [make |-> manufacturer.name,
     groups |-> [j \in 1..Len(manufacturer.models) |-> js_group(manufacturer.models[j])]]

\* renderPriceLists(data): what is assigned to container.innerHTML
renderPriceLists(data) ==
    [i \in 1..Len(data.manufacturers) |-> js_section(data.manufacturers[i])]

\* the page before loadData has run
NoPage ==
    [loaded |-> FALSE, error |-> FALSE,
     stats |-> [manufacturers |-> 0, models |-> 0, pricelists |-> 0],
     container |-> <<>>]

\* the page after loadData fetched data
LoadedPage(data) ==
    [loaded |-> TRUE, error |-> FALSE,
     stats |-> [manufacturers |-> data.stats.totalManufacturers,
                models |-> data.stats.totalModels,
                pricelists |-> data.stats.totalPriceLists],
     container |-> renderPriceLists(data)]

\* the page after loadData failed to fetch data.json
ErrorPage == [NoPage EXCEPT !.loaded = TRUE, !.error = TRUE]

(***************************************************************************)
(* main                                                                    *)
(***************************************************************************)
\* file names that may lie in the input folder
ScanPool == {
    <<"C", "a", "l", "i", "f", "o", "r", "n", "i", "a", ".", "p", "d", "f">>,
    <<"C", "a", "l", "i", "f", "o", "r", "n", "i", "a", "_", "M", "J", "2", "0", "2", "5", ".", "p", "d", "f">>,
    <<"C", "a", "l", "i", "f", "o", "r", "n", "i", "a", "_", "0", "0", ".", "0", "0", ".", "0", "0", "0", "0", ".", "p", "d", "f">>,
    <<"C", "a", "l", "i", "f", "o", "r", "n", "i", "a", "_", "1", "5", ".", "3", ".", "2", "0", "2", "5", ".", "p", "d", "f">>,
    <<"C", "a", "l", "i", "f", "o", "r", "n", "i", "a", "_", "1", "5", ".", "3", ".", "2", "0", "2", "5", " ", "(", "1", ")", ".", "p", "d", "f">>,
    <<"C", "e", "n", "n", "i", "k", "_", "V", "W", "_", "C", "a", "l", "i", "f", "o", "r", "n", "i", "a", "_", "T", "7", "_", "M", "J", "2", "0", "2", "5", "_", "1", "5", ".", "3", ".", "2", "0", "2", "5", ".", "p", "d", "f">>,
    <<"M", "u", "l", "t", "i", "v", "a", "n", ".", "p", "d", "f">>,
    <<"T", "r", "a", "n", "s", "i", "t", "_", "C", "u", "s", "t", "o", "m", "_", "2", "0", "2", "4", ".", "p", "d", "f">>,
    <<"c", "e", "n", "n", "i", "k", ".", "p", "d", "f">>,
    <<"n", "o", "t", "e", "s", ".", "t", "x", "t">> }

\* documents that may lie behind a name
ScanDocuments == {
    [readable |-> TRUE, pages |-> <<<<"B", "e", "a", "c", "h", " ", "2", "5", " ", "6", "0", "0", " ", "€", " ", "b", "e", "z", " ", "D", "P", "H", ",", " ", "O", "c", "e", "a", "n", " ", "3", "1", " ", "9", "0", "0", " ", "€">>>>],
    [readable |-> FALSE, pages |-> <<>>] }

\* the folders: missing, or holding up to MaxFiles files
Folders ==
    {[exists |-> FALSE, files |-> <<>>]}
    \cup {[exists |-> TRUE, files |-> f] :
            f \in UNION {[S -> ScanDocuments] :
                            S \in {T \in SUBSET ScanPool : Cardinality(T) <= MaxFiles}}}

endswith(s, suffix) ==
    Len(suffix) <= Len(s) /\ SubSeq(s, Len(s) - Len(suffix) + 1, Len(s)) = suffix

\* mutation of Glob: every file of the folder matches
GlobAnyFile(folder) ==
    IF ~folder.exists THEN <<>> ELSE SortedStrs(DOMAIN folder.files)

\* sorted(cenniky_path.glob('*.pdf')): the names, a missing folder yields nothing
Glob(folder) ==
    IF ~folder.exists THEN <<>>
    ELSE SortedStrs({n \in DOMAIN folder.files : endswith(n, <<".", "p", "d", "f">>)})

NoFile == <<>>

NoDocs == [exists |-> FALSE, data_json |-> NoFile, index_html |-> NoFile,
           index_static_html |-> NoFile]

EmptyGroups == [mk \in {} |-> <<>>]

MainIdle ==
    /\ cenniky = [exists |-> FALSE, files |-> <<>>]
    /\ pdf_files = <<>>
    /\ all_metadata = <<>>
    /\ grouped_data = EmptyGroups
    /\ docs = NoDocs
    /\ console = <<>>
    /\ document = NoPage

Init ==
    /\ pc = "main"
    /\ PDF_PARSING_AVAILABLE \in BOOLEAN
    /\ filename = None
    /\ metadata = NoMetadata
    /\ pdf = NoDocument
    /\ content = NoContent
    /\ cenniky \in Folders
    /\ pdf_files = <<>>
    /\ all_metadata = <<>>
    /\ grouped_data = EmptyGroups
    /\ docs = NoDocs
    /\ console = <<>>
    /\ document = NoPage

\* main, lines 958-973: scan the folder; return early when nothing was found
Scan ==
    /\ pc = "main"
    /\ pdf_files' = Glob(cenniky)
    /\ IF Glob(cenniky) = <<>>
       THEN /\ console' = console \o <<"No PDF files found">>
            /\ pc' = "returned"
       ELSE /\ console' = console \o <<"Found">>
                            \o (IF PDF_PARSING_AVAILABLE THEN <<>> ELSE <<"Warning: PDF parsing not available">>)
            /\ pc' = "process"
    /\ UNCHANGED <<PDF_PARSING_AVAILABLE, parseVars, contentVars, cenniky, all_metadata,
                   grouped_data, docs, document>>

\* the dict of one file: parse_filename, then update() with the content dict
\* when pypdf is available; a key that was never set reads as its .get() default
FileMetadata(name, doc, available) ==
    parse_filename(<<"c", "e", "n", "n", "i", "k", "y", "/">> \o name)
        @@ [has_content |-> available]
        @@ (IF available THEN parse_pdf_content(doc, available) ELSE NoContent)

\* mutation of ProcessFile: the error of an unreadable document is not caught
\* and ends the run
ProcessFileUncaught ==
    /\ pc = "process"
    /\ Len(all_metadata) < Len(pdf_files)
    /\ LET name == pdf_files[Len(all_metadata) + 1]
           doc == cenniky.files[name]
       IN  IF PDF_PARSING_AVAILABLE /\ ~doc.readable
           THEN /\ pc' = "returned"
                /\ console' = console \o <<"Processing">>
                /\ UNCHANGED all_metadata
           ELSE /\ all_metadata' = Append(all_metadata, FileMetadata(name, doc, PDF_PARSING_AVAILABLE))
                /\ console' = console \o <<"Processing">>
                /\ UNCHANGED pc
    /\ UNCHANGED <<PDF_PARSING_AVAILABLE, parseVars, contentVars, cenniky, pdf_files,
                   grouped_data, docs, document>>

\* main, lines 977-992: one iteration of the loop over pdf_files
ProcessFile ==
    /\ pc = "process"
    /\ Len(all_metadata) < Len(pdf_files)
    /\ LET name == pdf_files[Len(all_metadata) + 1]
           doc == cenniky.files[name]
       IN  /\ all_metadata' = Append(all_metadata, FileMetadata(name, doc, PDF_PARSING_AVAILABLE))
           /\ console' = console \o <<"Processing">>
                            \o (IF PDF_PARSING_AVAILABLE /\ ~doc.readable
                                THEN <<"Error reading">> ELSE <<>>)
    /\ UNCHANGED <<pc, PDF_PARSING_AVAILABLE, parseVars, contentVars, cenniky, pdf_files,
                   grouped_data, docs, document>>

\* main, lines 994-1003: group by make and model, create the docs folder
Group ==
    /\ pc = "process"
    /\ Len(all_metadata) = Len(pdf_files)
    /\ grouped_data' = GroupByMakeModel(all_metadata)
    /\ docs' = [docs EXCEPT !.exists = TRUE]
    /\ pc' = "generate_json_data"
    /\ UNCHANGED <<PDF_PARSING_AVAILABLE, parseVars, contentVars, cenniky, pdf_files,
                   all_metadata, console, document>>

\* generate_json_data(grouped_data, docs/data.json)
GenerateJsonData ==
    /\ pc = "generate_json_data"
    /\ grouped_data' = JsonSorted(grouped_data)
    /\ docs' = [docs EXCEPT !.data_json = <<json_data(JsonSorted(grouped_data))>>]
    /\ console' = Append(console, "JSON data generated")
    /\ pc' = "generate_vue_html"
    /\ UNCHANGED <<PDF_PARSING_AVAILABLE, parseVars, contentVars, cenniky, pdf_files,
                   all_metadata, document>>

\* generate_vue_html(docs/index.html): a fixed page that loads data.json
GenerateVueHtml ==
    /\ pc = "generate_vue_html"
    /\ docs' = [docs EXCEPT !.index_html = <<"shell">>]
    /\ console' = Append(console, "JavaScript HTML generated")
    /\ pc' = "generate_html"
    /\ UNCHANGED <<PDF_PARSING_AVAILABLE, parseVars, contentVars, cenniky, pdf_files,
                   all_metadata, grouped_data, document>>

\* generate_html(grouped_data, docs/index-static.html)
GenerateHtml ==
    /\ pc = "generate_html"
    /\ grouped_data' = HtmlSorted(grouped_data)
    /\ docs' = [docs EXCEPT
                    !.index_static_html = <<html_page(grouped_data, HtmlSorted(grouped_data))>>]
    /\ console' = Append(console, "HTML summary generated")
    /\ pc' = "summary"
    /\ UNCHANGED <<PDF_PARSING_AVAILABLE, parseVars, contentVars, cenniky, pdf_files,
                   all_metadata, document>>

\* main, lines 1017-1022: the final summary
Summary ==
    /\ pc = "summary"
    /\ console' = Append(console, "Summary")
    /\ pc' = "done"
    /\ UNCHANGED <<PDF_PARSING_AVAILABLE, parseVars, contentVars, cenniky, pdf_files,
                   all_metadata, grouped_data, docs, document>>

\* loadData: a browser opens index.html once it has been written
LoadData ==
    /\ docs.index_html /= NoFile
    /\ ~document.loaded
    /\ document' = IF docs.data_json = NoFile THEN ErrorPage ELSE LoadedPage(docs.data_json[1])
    /\ UNCHANGED <<pc, PDF_PARSING_AVAILABLE, parseVars, contentVars, cenniky, pdf_files,
                   all_metadata, grouped_data, docs, console>>

Next ==
    \/ Scan
    \/ ProcessFile
    \/ Group
    \/ GenerateJsonData
    \/ GenerateVueHtml
    \/ GenerateHtml
    \/ Summary
    \/ LoadData

Spec == Init /\ [][Next]_vars

\* the steps of main(); the interpreter runs them one after the other
MainStep ==
    \/ Scan
    \/ ProcessFile
    \/ Group
    \/ GenerateJsonData
    \/ GenerateVueHtml
    \/ GenerateHtml
    \/ Summary

\* main() has not returned yet; in each such state a step of main() is possible
Running == pc \notin {"done", "returned"}

\* main() keeps running until it returns (nobody has to open the page): weak
\* fairness of MainStep, WF_vars(MainStep), with ENABLED <<MainStep>>_vars
\* written as Running
FairSpec == Spec /\ ([]<>~Running \/ []<><<MainStep>>_vars)

(***************************************************************************)
(* SpecParse: one call of parse_filename                                   *)
(***************************************************************************)
InitParse ==
    /\ pc = "parse_filename"
    /\ filename \in Filenames
    /\ metadata = NoMetadata
    /\ PDF_PARSING_AVAILABLE = TRUE
    /\ pdf = NoDocument
    /\ content = NoContent
    /\ MainIdle

ParseFilename ==
    /\ pc = "parse_filename"
    /\ metadata' = parse_filename(filename)
    /\ pc' = "parsed"
    /\ UNCHANGED <<filename, PDF_PARSING_AVAILABLE, contentVars, mainVars>>

NextParse == ParseFilename

SpecParse == InitParse /\ [][NextParse]_vars

(***************************************************************************)
(* SpecContent: one call of parse_pdf_content                              *)
(***************************************************************************)
InitContent ==
    /\ pc = "parse_pdf_content"
    /\ filename = None
    /\ metadata = NoMetadata
    /\ PDF_PARSING_AVAILABLE \in BOOLEAN
    /\ pdf \in Documents
    /\ content = NoContent
    /\ MainIdle

ParsePdfContent ==
    /\ pc = "parse_pdf_content"
    /\ content' = parse_pdf_content(pdf, PDF_PARSING_AVAILABLE)
    /\ pc' = "content_parsed"
    /\ UNCHANGED <<parseVars, PDF_PARSING_AVAILABLE, pdf, mainVars>>

NextContent == ParsePdfContent

SpecContent == InitContent /\ [][NextContent]_vars

(***************************************************************************)
(* Claims about parse_filename (checked under SpecParse)                   *)
(***************************************************************************)
\* the branches of the cascade whose trigger is present in the basename, numbered
\* in the order Volkswagen, Ford, Opel, Peugeot, Toyota, Citroen (SPACE+TOURER),
\* Citroen (prefix)
Triggered(basename) ==
    LET U == upper(basename)
    IN  {k \in 1..7 :
            \/ k = 1 /\ IsVolkswagen(U)
            \/ k = 2 /\ IsFord(U)
            \/ k = 3 /\ IsOpel(U)
            \/ k = 4 /\ IsPeugeot(U)
            \/ k = 5 /\ IsToyota(U)
            \/ k = 6 /\ IsSpaceTourer(U)
            \/ k = 7 /\ IsCitroenPrefix(basename)}

MakeOfBranch ==
    <<<<"V", "o", "l", "k", "s", "w", "a", "g", "e", "n">>, <<"F", "o", "r", "d">>, <<"O", "p", "e", "l">>, <<"P", "e", "u", "g", "e", "o", "t">>, <<"T", "o", "y", "o", "t", "a">>, <<"C", "i", "t", "r", "o", "ë", "n">>, <<"C", "i", "t", "r", "o", "ë", "n">>>>

ModelsOfBranch == <<
    {<<"C", "a", "l", "i", "f", "o", "r", "n", "i", "a">>, <<"C", "a", "r", "a", "v", "e", "l", "l", "e">>, <<"M", "u", "l", "t", "i", "v", "a", "n">>, <<"T", "r", "a", "n", "s", "p", "o", "r", "t", "e", "r">>},
    {<<"T", "r", "a", "n", "s", "i", "t", " ", "C", "u", "s", "t", "o", "m">>},
    {<<"V", "i", "v", "a", "r", "o", " ", "V", "a", "n">>, <<"V", "i", "v", "a", "r", "o", " ", "C", "o", "m", "b", "i">>, <<"V", "i", "v", "a", "r", "o">>, <<"Z", "a", "f", "i", "r", "a", " ", "L", "i", "f", "e">>},
    {<<"E", "x", "p", "e", "r", "t", " ", "C", "o", "m", "b", "i", "/", "T", "r", "a", "v", "e", "l", "l", "e", "r">>, <<"E", "x", "p", "e", "r", "t", " ", "F", "u", "r", "g", "o", "n">>, <<"E", "x", "p", "e", "r", "t">>},
    {<<"P", "r", "o", "A", "c", "e", " ", "V", "e", "r", "s", "o", " ", "E", "V">>, <<"P", "r", "o", "A", "c", "e", " ", "V", "e", "r", "s", "o">>, <<"P", "r", "o", "A", "c", "e">>},
    {<<"S", "p", "a", "c", "e", "T", "o", "u", "r", "e", "r">>},
    {<<"S", "p", "a", "c", "e", "T", "o", "u", "r", "e", "r">>} >>

\* the makes whose trigger is present in the basename
TriggeredMakes(basename) == {MakeOfBranch[k] : k \in Triggered(basename)}

Parsed == pc = "parsed"

\* C1: when trigger tokens of several branches are present, make and model are those
\* of the earliest branch in the order Volkswagen > Ford > Opel > Peugeot > Toyota >
\* Citroen (SPACE+TOURER) > Citroen (prefix), and only the Volkswagen branch sets
\* the variant, the model year and the validity date.
C1_FirstMatchWins ==
    Parsed =>
        LET T == Triggered(metadata.basename)
        IN  T /= {} =>
                /\ metadata.make = MakeOfBranch[Min(T)]
                /\ metadata.model \in ModelsOfBranch[Min(T)]
                /\ metadata.filename = filename
                /\ Min(T) /= 1 =>
                        /\ metadata.variant = None
                        /\ metadata.model_year = None
                        /\ metadata.validity_date = None

\* tokens of two different makes are present and the earlier one (not Volkswagen,
\* so that every position of the order is exercised by some such state) has won
C1_Witness ==
    /\ Parsed
    /\ Cardinality(TriggeredMakes(metadata.basename)) >= 2
    /\ metadata.make = <<"O", "p", "e", "l">>
    /\ <<"T", "o", "y", "o", "t", "a">> \in TriggeredMakes(metadata.basename)

\* C2: a filename containing CALIFORNIA or CT7 in any letter case is classified
\* Volkswagen / California.
C2_California ==
    (Parsed /\ (Contains(<<"C", "A", "L", "I", "F", "O", "R", "N", "I", "A">>, upper(filename)) \/ Contains(<<"C", "T", "7">>, upper(filename))))
        => (metadata.make = <<"V", "o", "l", "k", "s", "w", "a", "g", "e", "n">> /\ metadata.model = <<"C", "a", "l", "i", "f", "o", "r", "n", "i", "a">>)

\* a lower-case ct7 next to another Volkswagen token and a Ford token
C2_Witness ==
    /\ Parsed
    /\ Contains(<<"c", "t", "7">>, filename)
    /\ Contains(<<"M", "u", "l", "t", "i", "v", "a", "n">>, filename)
    /\ Contains(<<"T", "r", "a", "n", "s", "i", "t">>, filename)
    /\ metadata.model = <<"C", "a", "l", "i", "f", "o", "r", "n", "i", "a">>

\* C3: in the Volkswagen branch a dotted date decides validity_date whenever one is
\* present (year-month-day, month and day padded to two digits); the 8-digit run
\* is used only when there is no dotted date.
C3_DottedFirst ==
    (Parsed /\ metadata.make = <<"V", "o", "l", "k", "s", "w", "a", "g", "e", "n">>) =>
        LET b == metadata.basename
        IN  /\ SearchDottedDate(b) /= None =>
                    LET g == SearchDottedDate(b)
                    IN  metadata.validity_date = g[3] \o <<"-">> \o zfill(g[2], 2) \o <<"-">> \o zfill(g[1], 2)
            /\ (SearchDottedDate(b) = None /\ SearchDigitDate(b) /= None) =>
                    LET g == SearchDigitDate(b)
                    IN  metadata.validity_date = g[3] \o <<"-">> \o g[2] \o <<"-">> \o g[1]
            /\ (SearchDottedDate(b) = None /\ SearchDigitDate(b) = None) =>
                    metadata.validity_date = None

\* both patterns are present, the 8-digit run comes first in the name and reads as
\* a different date, and the dotted date has been taken
C3_Witness ==
    /\ Parsed
    /\ metadata.make = <<"V", "o", "l", "k", "s", "w", "a", "g", "e", "n">>
    /\ Contains(<<"0", "1", "0", "3", "2", "0", "2", "5">>, metadata.basename)
    /\ SearchDottedDate(metadata.basename) = <<<<"1", "5">>, <<"3">>, <<"2", "0", "2", "5">>>>
    /\ SearchDigitDate(metadata.basename) = <<<<"0", "1">>, <<"0", "3">>, <<"2", "0", "2", "5">>>>
    /\ metadata.validity_date = <<"2", "0", "2", "5", "-", "0", "3", "-", "1", "5">>

\* the shape dddd-dd-dd
IsDateShaped(d) ==
    /\ Len(d) = 10
    /\ AllDigits(d, 1, 4) /\ d[5] = "-" /\ AllDigits(d, 6, 7) /\ d[8] = "-" /\ AllDigits(d, 9, 10)

\* C4 as stated: validity_date is null or YYYY-MM-DD with month 01..12 and day 01..31.
C4_ValidIsoDate ==
    (Parsed /\ metadata.validity_date /= None) =>
        /\ IsDateShaped(metadata.validity_date)
        /\ ToInt(SubSeq(metadata.validity_date, 6, 7)) \in 1..12
        /\ ToInt(SubSeq(metadata.validity_date, 9, 10)) \in 1..31

\* C4 amended: validity_date is null or has the shape dddd-dd-dd (4-digit year,
\* 2-digit month, 2-digit day); month and day are not range-checked.
C4_DateShape ==
    (Parsed /\ metadata.validity_date /= None) => IsDateShaped(metadata.validity_date)

\* a dotted date with a one-digit month has been padded
C4_Witness ==
    /\ Parsed
    /\ SearchDottedDate(metadata.basename) = <<<<"1", "5">>, <<"3">>, <<"2", "0", "2", "5">>>>
    /\ metadata.validity_date = <<"2", "0", "2", "5", "-", "0", "3", "-", "1", "5">>
    /\ SearchDigitDate(metadata.basename) = None

Makes ==
    {<<"V", "o", "l", "k", "s", "w", "a", "g", "e", "n">>, <<"F", "o", "r", "d">>, <<"O", "p", "e", "l">>, <<"P", "e", "u", "g", "e", "o", "t">>, <<"T", "o", "y", "o", "t", "a">>, <<"C", "i", "t", "r", "o", "ë", "n">>, <<"U", "n", "k", "n", "o", "w", "n">>}

\* C5: make is one of the seven makes and model is never null; when no branch
\* matches, make is Unknown and model is the stem with one trailing duplicate
\* marker removed.
C5_MakeModelSet ==
    Parsed =>
        /\ metadata.make \in Makes
        /\ metadata.model /= None
        /\ Triggered(StripDupMarker(PathStem(filename))) = {} =>
                /\ metadata.make = <<"U", "n", "k", "n", "o", "w", "n">>
                /\ metadata.model = StripDupMarker(PathStem(filename))
                /\ metadata.model = metadata.basename

\* an unmatched name that ended in a duplicate marker, which has been removed
C5_Witness ==
    /\ Parsed
    /\ metadata.make = <<"U", "n", "k", "n", "o", "w", "n">>
    /\ PathStem(filename) = metadata.model \o <<" ", "(", "1", ")">>

(***************************************************************************)
(* Claims about the content extractor (checked under SpecContent)          *)
(***************************************************************************)
ContentParsed == pc = "content_parsed"

\* C6: every extracted price lies in 10000..150000, both bounds included (a matched
\* amount in that interval is kept, anything outside is dropped), and the sequence
\* is strictly ascending.
C6_PricesBounded ==
    ContentParsed =>
        LET prices == content.prices
            matched == Range(MatchedAmounts(extract_pdf_text(pdf, PDF_PARSING_AVAILABLE)))
        IN  /\ \A k \in 1..Len(prices) : 10000 <= prices[k] /\ prices[k] <= 150000
            /\ \A k \in 1..(Len(prices) - 1) : prices[k] < prices[k + 1]
            /\ \A v \in matched : (10000 <= v /\ v <= 150000) => v \in Range(prices)
            /\ Range(prices) \subseteq matched

\* both bounds occur in the text, 10000 is matched by both patterns, and the
\* result holds each exactly once
C6_Witness ==
    /\ ContentParsed
    /\ content.prices = <<10000, 150000>>
    /\ LET m == MatchedAmounts(extract_pdf_text(pdf, PDF_PARSING_AVAILABLE))
       IN  Cardinality({k \in 1..Len(m) : m[k] = 10000}) = 2

\* C7: base_price is the minimum of prices or null; price_range is "<min> - <max> €"
\* for two or more prices, "<p> €" for one, null for none.
C7_SummaryFields ==
    ContentParsed =>
        LET P == Range(content.prices)
        IN  /\ P = {} => (content.base_price = NoPrice /\ content.price_range = None)
            /\ P /= {} => content.base_price = Min(P)
            /\ Len(content.prices) = 1 =>
                    content.price_range = FormatThousands(Min(P)) \o <<" ", "€">>
            /\ Len(content.prices) >= 2 =>
                    content.price_range =
                        FormatThousands(Min(P)) \o <<" ", "-", " ">> \o FormatThousands(Max(P)) \o <<" ", "€">>

\* the scenario of the specification: 25 600 € bez DPH and 31 900 €
C7_Witness ==
    /\ ContentParsed
    /\ content.prices = <<25600, 31900>>
    /\ content.base_price = 25600
    /\ content.price_range = <<"2", "5", ",", "6", "0", "0", " ", "-", " ", "3", "1", ",", "9", "0", "0", " ", "€">>

(***************************************************************************)
(* Claims about grouping, sorting and rendering (checked under Spec)       *)
(***************************************************************************)
JsonWritten == docs.data_json /= NoFile

HtmlWritten == docs.index_static_html /= NoFile

\* the record lists of data.json, one per model
JsonLists ==
    LET j == docs.data_json[1]
    IN  UNION {{j.manufacturers[i].models[m].priceLists :
                    m \in 1..Len(j.manufacturers[i].models)} :
                i \in 1..Len(j.manufacturers)}

\* the dict main() built for the file behind a rendered name
RecordOf(name) == CHOOSE r \in Range(all_metadata) : PathName(r.filename) = name

\* the record lists of index-static.html, one per model, as file names
HtmlLists ==
    LET h == docs.index_static_html[1]
    IN  UNION {{[k \in 1..Len(h.sections[i].groups[m].items) |->
                    PathName(h.sections[i].groups[m].items[k].href)] :
                    m \in 1..Len(h.sections[i].groups)} :
                i \in 1..Len(h.sections)}

\* C8 as stated: in every rendered list each record without validity date comes
\* after every record with one.
C8_NullDatesLast ==
    /\ JsonWritten =>
            \A L \in JsonLists : \A a \in 1..Len(L) : \A b \in (a + 1)..Len(L) :
                ~(L[a].validityDate = None /\ L[b].validityDate /= None)
    /\ HtmlWritten =>
            \A L \in HtmlLists : \A a \in 1..Len(L) : \A b \in (a + 1)..Len(L) :
                ~(RecordOf(L[a]).validity_date = None /\ RecordOf(L[b]).validity_date /= None)

\* the key pair of the claim, taken from a rendered record
RenderedKey(pl) ==
    <<IF pl.validityDate = None THEN <<"0", "0", "0", "0", "-", "0", "0", "-", "0", "0">> ELSE pl.validityDate,
      IF pl.modelYear = None THEN <<"0", "0", "0", "0">> ELSE pl.modelYear>>

\* position of a rendered file in the directory scan
ScanIndex(name) == CHOOSE k \in 1..Len(pdf_files) : pdf_files[k] = name

\* C9: every list of data.json holds exactly the records of its (make, model)
\* group, in non-increasing order of (validity_date or '0000-00-00',
\* model_year or '0000'); records with equal keys keep the order of the scan,
\* which is ascending file name order.
C9_StableDescending ==
    JsonWritten =>
        /\ \A k \in 1..(Len(pdf_files) - 1) : StrLess(pdf_files[k], pdf_files[k + 1])
        /\ \A i \in 1..Len(docs.data_json[1].manufacturers) :
             LET mf == docs.data_json[1].manufacturers[i]
             IN  \A m \in 1..Len(mf.models) :
                    LET L == mf.models[m].priceLists
                    IN  /\ {L[k].filename : k \in 1..Len(L)} =
                                {PathName(r.filename) : r \in
                                    {x \in Range(all_metadata) :
                                        x.make = mf.name /\ x.model = mf.models[m].name}}
                        /\ Cardinality({L[k].filename : k \in 1..Len(L)}) = Len(L)
                        /\ \A k \in 1..(Len(L) - 1) :
                                ~KeyLess(RenderedKey(L[k]), RenderedKey(L[k + 1]))
                        /\ \A a \in 1..Len(L) : \A b \in (a + 1)..Len(L) :
                                RenderedKey(L[a]) = RenderedKey(L[b]) =>
                                    /\ ScanIndex(L[a].filename) < ScanIndex(L[b].filename)
                                    /\ StrLess(L[a].filename, L[b].filename)

\* a list in which the model year breaks a tie on the date and two records with
\* equal keys follow in scan order
C9_Witness ==
    /\ JsonWritten
    /\ \E L \in JsonLists :
          /\ [k \in 1..Len(L) |-> L[k].filename] =
                <<<<"C", "e", "n", "n", "i", "k", "_", "V", "W", "_", "C", "a", "l", "i", "f", "o", "r", "n", "i", "a", "_", "T", "7", "_", "M", "J", "2", "0", "2", "5", "_", "1", "5", ".", "3", ".", "2", "0", "2", "5", ".", "p", "d", "f">>,
                  <<"C", "a", "l", "i", "f", "o", "r", "n", "i", "a", "_", "1", "5", ".", "3", ".", "2", "0", "2", "5", " ", "(", "1", ")", ".", "p", "d", "f">>,
                  <<"C", "a", "l", "i", "f", "o", "r", "n", "i", "a", "_", "1", "5", ".", "3", ".", "2", "0", "2", "5", ".", "p", "d", "f">>>>
          /\ RenderedKey(L[1])[1] = RenderedKey(L[2])[1]
          /\ RenderedKey(L[2]) = RenderedKey(L[3])

\* the record order of data.json, per make and model, as file names
JsonOrder ==
    LET j == docs.data_json[1]
    IN  [i \in 1..Len(j.manufacturers) |->
            [m \in 1..Len(j.manufacturers[i].models) |->
                <<j.manufacturers[i].name, j.manufacturers[i].models[m].name,
                  [k \in 1..Len(j.manufacturers[i].models[m].priceLists) |->
                        j.manufacturers[i].models[m].priceLists[k].filename]>>]]

\* the record order of index-static.html, per make and model, as file names
HtmlOrder ==
    LET h == docs.index_static_html[1]
    IN  [i \in 1..Len(h.sections) |->
            [m \in 1..Len(h.sections[i].groups) |->
                <<h.sections[i].make, h.sections[i].groups[m].model,
                  [k \in 1..Len(h.sections[i].groups[m].items) |->
                        PathName(h.sections[i].groups[m].items[k].href)]>>]]

\* C10: sorting the already sorted lists again changes nothing: the static page
\* lists the records in the order of data.json.
C10_SortIdempotent == HtmlWritten => HtmlOrder = JsonOrder

\* the run is complete and the static page shows a list that the first sort had
\* to reorder and that holds records with equal keys
C10_Witness ==
    /\ pc = "done"
    /\ \E L \in HtmlLists :
          /\ Len(L) = 3
          /\ L[1] = <<"C", "e", "n", "n", "i", "k", "_", "V", "W", "_", "C", "a", "l", "i", "f", "o", "r", "n", "i", "a", "_", "T", "7", "_", "M", "J", "2", "0", "2", "5", "_", "1", "5", ".", "3", ".", "2", "0", "2", "5", ".", "p", "d", "f">>
          /\ ScanIndex(L[1]) = 3
          /\ sort_key(RecordOf(L[2])) = sort_key(RecordOf(L[3]))

(***************************************************************************)
(* Claims about the two renderers (checked under Spec)                     *)
(***************************************************************************)
PageLoaded == document.loaded /\ ~document.error

\* the badges of every list item of a rendered page, section by section
BadgesOf(sections) ==
    [i \in 1..Len(sections) |->
        [j \in 1..Len(sections[i].groups) |->
            [k \in 1..Len(sections[i].groups[j].items) |->
                sections[i].groups[j].items[k].badges]]]

\* C11: for every input set, the page rendered in the browser from data.json
\* shows for every record the same badges (kinds, order, text) as the static
\* page written by generate_html, also for dates that are no calendar dates.
C11_SameBadges ==
    (PageLoaded /\ HtmlWritten) =>
        BadgesOf(document.container) = BadgesOf(docs.index_static_html[1].sections)

(***************************************************************************)
(* Claims about main (checked under Spec)                                  *)
(***************************************************************************)
\* the input folder is missing or holds no file whose name ends in .pdf
NoMatchingFiles ==
    \/ ~cenniky.exists
    \/ \A n \in DOMAIN cenniky.files : Len(n) < 4 \/ SubSeq(n, Len(n) - 3, Len(n)) /= <<".", "p", "d", "f">>

\* C12: when the input folder is missing or holds no matching file, main prints
\* the diagnostic and returns without creating the output folder or writing any
\* of the three files; nothing is written before the emptiness check.
C12_NothingWrittenWhenEmpty ==
    /\ pc = "main" => docs = NoDocs
    /\ NoMatchingFiles =>
        /\ docs = NoDocs
        /\ pc \in {"main", "returned"}
        /\ pc = "returned" => console = <<"No PDF files found">>

C12_Witness ==
    /\ pc = "returned"
    /\ cenniky.exists
    /\ DOMAIN cenniky.files /= {}
    /\ docs = NoDocs

\* positions <<make, model, item>> of the price-list entries of data.json
JsonIndex ==
    UNION {UNION {{<<i, m, k>> :
                        k \in 1..Len(docs.data_json[1].manufacturers[i].models[m].priceLists)} :
                    m \in 1..Len(docs.data_json[1].manufacturers[i].models)} :
            i \in 1..Len(docs.data_json[1].manufacturers)}

JsonEntry(t) == docs.data_json[1].manufacturers[t[1]].models[t[2]].priceLists[t[3]]

\* content extraction fails or is unavailable for the file called name
ExtractionFails(name) == ~PDF_PARSING_AVAILABLE \/ ~cenniky.files[name].readable

\* the content-derived data the file called name has to carry
ExpectedContent(name) ==
    IF ExtractionFails(name) THEN NoContent
    ELSE ContentOfText(JoinPages(cenniky.files[name].pages, max_pages))

\* the entry e of data.json carries the filename-derived metadata md and the
\* content-derived data c
CarriesData(e, md, c) ==
    /\ e.basename = md.basename
    /\ e.modelYear = md.model_year
    /\ e.variant = md.variant
    /\ e.validityDate = md.validity_date
    /\ e.prices = c.prices
    /\ e.variants = c.variants
    /\ e.basePrice = c.base_price
    /\ e.priceRange = c.price_range

\* the entry e of data.json carries the data of the file called name
CarriesDataOf(e, name) ==
    CarriesData(e, parse_filename(<<"c", "e", "n", "n", "i", "k", "y", "/">> \o name), ExpectedContent(name))

AllWritten ==
    /\ docs.exists
    /\ docs.data_json /= NoFile
    /\ docs.index_html /= NoFile
    /\ docs.index_static_html /= NoFile

\* data.json as generate_json_data has just written it: every enumerated file
\* has exactly one entry, carrying its data
C13_Records ==
    /\ pc = "done" => AllWritten
    /\ pc \in {"main", "returned"} \/ pdf_files /= <<>>
    /\ pc = "returned" => pdf_files = <<>>
    /\ pc = "generate_vue_html" =>
        /\ JsonWritten
        /\ Cardinality(JsonIndex) = Len(pdf_files)
        /\ \A n \in Range(pdf_files) :
                Cardinality({t \in JsonIndex : JsonEntry(t).filename = n}) = 1
        /\ \A t \in JsonIndex :
            /\ JsonEntry(t).filename \in Range(pdf_files)
            /\ CarriesDataOf(JsonEntry(t), JsonEntry(t).filename)

\* C13: once at least one file is enumerated the run always completes with all
\* three outputs written, whichever documents fail to open and also without
\* pypdf; every file contributes exactly one record with its filename-derived
\* metadata, and a failed or unavailable extraction leaves that record's prices
\* and variants empty and its base price and price range null; data.json stays
\* as it was written.
C13_AlwaysCompletes ==
    /\ []C13_Records
    /\ [][JsonWritten => docs'.data_json = docs.data_json]_vars
    /\ (pc = "process") ~> (pc = "done" /\ AllWritten)

\* the run is complete for a folder holding a readable and an unreadable document,
\* with pypdf present
C13_Witness ==
    /\ pc = "done"
    /\ AllWritten
    /\ PDF_PARSING_AVAILABLE
    /\ \E n \in Range(pdf_files) : ~cenniky.files[n].readable
    /\ \E t \in JsonIndex : JsonEntry(t).prices /= <<>>

\* the (make, model) pairs and the makes among the records main() built
MakeModelPairs == {<<all_metadata[k].make, all_metadata[k].model>> : k \in 1..Len(all_metadata)}

MakesFound == {all_metadata[k].make : k \in 1..Len(all_metadata)}

\* the entry at position t of data.json lies in the bucket of its record's make
\* and model
InOwnBucket(t) ==
    /\ docs.data_json[1].manufacturers[t[1]].name = RecordOf(JsonEntry(t).filename).make
    /\ docs.data_json[1].manufacturers[t[1]].models[t[2]].name
            = RecordOf(JsonEntry(t).filename).model

\* C14: grouping puts every record into exactly one (make, model) bucket, losing
\* and duplicating none: in data.json totalPriceLists is the number of enumerated
\* files, totalModels the number of distinct (make, model) pairs and
\* totalManufacturers the number of distinct makes; the static page shows the
\* same three numbers.
C14_GroupingCounts ==
    /\ JsonWritten =>
        /\ docs.data_json[1].stats.totalPriceLists = Len(pdf_files)
        /\ docs.data_json[1].stats.totalModels = Cardinality(MakeModelPairs)
        /\ docs.data_json[1].stats.totalManufacturers = Cardinality(MakesFound)
        /\ Cardinality(JsonIndex) = Len(pdf_files)
        /\ \A t \in JsonIndex : InOwnBucket(t)
        /\ \A n \in Range(pdf_files) :
                Cardinality({t \in JsonIndex : JsonEntry(t).filename = n}) = 1
    /\ HtmlWritten =>
        /\ docs.index_static_html[1].stats.total_files = Len(pdf_files)
        /\ docs.index_static_html[1].stats.total_models = Cardinality(MakeModelPairs)
        /\ docs.index_static_html[1].stats.total_makes = Cardinality(MakesFound)

\* both outputs are written for three files of two makes, one make with two
\* models and one bucket holding two records
C14_Witness ==
    /\ HtmlWritten
    /\ Len(pdf_files) = 3
    /\ Cardinality(MakesFound) = 2
    /\ \E a \in 1..3 : \E b \in 1..3 :
        /\ a /= b
        /\ all_metadata[a].make = all_metadata[b].make
        /\ all_metadata[a].model /= all_metadata[b].model

(***************************************************************************)
(* More claims about parse_filename (checked under SpecParse)              *)
(***************************************************************************)
\* the worked example of the claim
TransitCustom2024 == parse_filename(<<"c", "e", "n", "n", "i", "k", "y", "/", "T", "r", "a", "n", "s", "i", "t", "_", "C", "u", "s", "t", "o", "m", "_", "2", "0", "2", "4", ".", "p", "d", "f">>)

\* C15: variant, model year and validity date are extracted in the Volkswagen
\* branch only: for a basename classified as Ford, Opel, Peugeot, Toyota, Citroën
\* or Unknown all three are null, even when the basename holds T7, an MJ token or
\* a date; Transit_Custom_2024.pdf gives Ford / Transit Custom with null variant
\* and validity date.
C15_ExtractionOnlyVolkswagen ==
    /\ (Parsed /\ metadata.make /= <<"V", "o", "l", "k", "s", "w", "a", "g", "e", "n">>) =>
        /\ metadata.variant = None
        /\ metadata.model_year = None
        /\ metadata.validity_date = None
    /\ TransitCustom2024.make = <<"F", "o", "r", "d">>
    /\ TransitCustom2024.model = <<"T", "r", "a", "n", "s", "i", "t", " ", "C", "u", "s", "t", "o", "m">>
    /\ TransitCustom2024.variant = None
    /\ TransitCustom2024.validity_date = None

\* a Ford name that holds an MJ token and a dotted date
C15_Witness ==
    /\ Parsed
    /\ metadata.make = <<"F", "o", "r", "d">>
    /\ SearchModelYear(metadata.basename) /= None
    /\ SearchDottedDate(metadata.basename) /= None
    /\ metadata.validity_date = None

(***************************************************************************)
(* More claims about the two renderers (checked under Spec)                *)
(***************************************************************************)
\* the list items of a rendered page
ItemsOf(sections) ==
    UNION {UNION {Range(sections[i].groups[j].items) :
                    j \in 1..Len(sections[i].groups)} :
            i \in 1..Len(sections)}

\* the stored validity date of the record behind a list item
StoredDate(item) == RecordOf(PathName(item.href)).validity_date

\* a stored validity date that cannot be formatted as a calendar date
Unformattable(date) == date /= None /\ date /= <<>> /\ strptime(date) = None

\* the item shows the raw stored date in its date badge
ShowsRawDate(item) == [class |-> "date", text |-> StoredDate(item)] \in Range(item.badges)

\* C16: a stored validity date that cannot be formatted as a calendar date never
\* aborts rendering; the date badge shows the raw stored string unchanged, in the
\* static page and in the page rendered in the browser alike.
C16_RawDateFallback ==
    /\ HtmlWritten =>
        \A item \in ItemsOf(docs.index_static_html[1].sections) :
            Unformattable(StoredDate(item)) => ShowsRawDate(item)
    /\ PageLoaded =>
        \A item \in ItemsOf(document.container) :
            Unformattable(StoredDate(item)) => ShowsRawDate(item)

\* a renderer has been called
RendererCalled == pc \in {"generate_vue_html", "generate_html", "summary", "done"}

\* C17: generate_json_data and generate_html leave the grouped structure passed
\* to them unchanged: after either has run it still holds the same makes, the
\* same models and the same records in the same list order as main() built it.
C17_GroupedUnchanged ==
    RendererCalled => grouped_data = GroupByMakeModel(all_metadata)

\* the price badge in its 'From <base_price> €' form; no text without a base price
FromBadge(item) ==
    [class |-> "price",
     text |-> IF RecordOf(PathName(item.href)).base_price = NoPrice THEN None
              ELSE <<"F", "r", "o", "m", " ">> \o FormatThousands(RecordOf(PathName(item.href)).base_price)
                   \o <<" ", "€">>]

\* every price badge of the item has the 'From <base_price> €' form, and the item
\* has one exactly when its record has prices
PriceBadgeFromBase(item) ==
    /\ \A k \in 1..Len(item.badges) :
            item.badges[k].class = "price" => item.badges[k] = FromBadge(item)
    /\ (\E k \in 1..Len(item.badges) : item.badges[k].class = "price")
            <=> RecordOf(PathName(item.href)).prices /= <<>>

\* C18: for every record reaching a renderer base_price is null exactly when
\* price_range is null exactly when prices is empty; so the price badge, when
\* shown, always has the 'From <base_price> €' form and the branch that shows
\* price_range alone is never taken, in the static page and in the browser.
C18_PriceFieldsAgree ==
    /\ \A k \in 1..Len(all_metadata) :
        /\ (all_metadata[k].base_price = NoPrice) <=> (all_metadata[k].prices = <<>>)
        /\ (all_metadata[k].price_range = None) <=> (all_metadata[k].prices = <<>>)
        /\ all_metadata[k].base_price /= 0
    /\ HtmlWritten =>
        \A item \in ItemsOf(docs.index_static_html[1].sections) : PriceBadgeFromBase(item)
    /\ PageLoaded =>
        \A item \in ItemsOf(document.container) : PriceBadgeFromBase(item)

\* both pages show a record with prices next to a record without
C18_Witness ==
    /\ HtmlWritten
    /\ PageLoaded
    /\ \E k \in 1..Len(all_metadata) : all_metadata[k].prices /= <<>>
    /\ \E k \in 1..Len(all_metadata) : all_metadata[k].prices = <<>>
    /\ \E item \in ItemsOf(document.container) : FromBadge(item) \in Range(item.badges)
    /\ \E item \in ItemsOf(docs.index_static_html[1].sections) :
            FromBadge(item) \in Range(item.badges)

====
